---- MODULE Spec2Model ----
(***************************************************************************)
(* State-machine model of the quiz socket server (src/unnamed/part_001,    *)
(* the streak-scoring revision of src/server.js).                          *)
(*                                                                         *)
(* Time is kept relative to Date.now(): a session's deadline is stored as  *)
(* deadline - now (negative once the deadline has passed) and a pending    *)
(* timeout as the delay that is still to elapse.  Tick lets SafetyMarginMs *)
(* milliseconds pass.  A nullable JavaScript value is <<>> (null) or <<v>>.*)
(***************************************************************************)
EXTENDS Integers, Sequences, FiniteSets, TLC

VARIABLES
    SESSIONS,   \* the registry Map: pin -> session (the session object's id)
    heap,       \* session objects: id -> fields
    timers,     \* pending setTimeout callbacks
    connected,  \* sockets whose connection is open
    emitted,    \* broadcasts (io.to(pin).emit) of the last step, in order
    last,       \* the last event handled and the reply handed to its callback
    nextSid,    \* number of sessions created so far
    work,       \* number of starts and answers accepted so far
    ended,      \* history: ids of the sessions endSession has run for
    answered,   \* history: id -> sockets with an accepted answer since the last advance
    pinOf,      \* history: id -> the pin the session was created under
    qlog        \* history: id -> idx values of the question broadcasts since the last start

vars == <<SESSIONS, heap, timers, connected, emitted, last, nextSid, work,
          ended, answered, pinOf, qlog>>

----------------------------------------------------------------------------
\* Bounds of the model.
MaxWork == 3        \* accepted session:start requests and accepted answers served
MaxOver == 1        \* question:next requests served once the index is past the list

\* Program constants.
BASE_SCORE == 1000
TIME_BONUS_MAX == 500
STREAK_STEP == 100
DefaultDurationMs == 15000
SafetyMarginMs == 50
NoTimer == 0

NULL == <<>>
Sockets == {"s1", "s2"}
PinSeq == <<"p1">>
Pins == {PinSeq[i] : i \in DOMAIN PinSeq}
Answers == {"x", "y"}

Q(id, answer, durationMs) == [id |-> id, answer |-> answer, durationMs |-> durationMs]

\* The question lists a host sends with session:start (id 0: no id given).
QuestionLists ==
    { <<>>,
      <<Q(1, "x", 100), Q(0, "y", 50)>> }

Max(a, b) == IF a >= b THEN a ELSE b
Range(f) == {f[i] : i \in DOMAIN f}

----------------------------------------------------------------------------
\* Identifiers: uuid() and the Timeout objects are fresh with respect to
\* every value the program still holds.

QuestionIdsInUse ==
    UNION {{q.id : q \in Range(heap[s].questions)} : s \in DOMAIN heap}
    \cup UNION {UNION {{la.qid : la \in Range(p.lastAnswer)} : p \in Range(heap[s].players)}
                : s \in DOMAIN heap}

uuid(used) ==
    CHOOSE n \in 100..(100 + Cardinality(used)) :
        /\ n \notin used
        /\ \A m \in 100..(n - 1) : m \in used

HandlesInUse(H, T) == {t.h : t \in T} \cup {H[s].timer : s \in DOMAIN H}

setTimeout(H, T, sid, delay) ==
    LET h == CHOOSE n \in 1..(Cardinality(HandlesInUse(H, T)) + 1) :
                 /\ n \notin HandlesInUse(H, T)
                 /\ \A m \in 1..(n - 1) : m \in HandlesInUse(H, T)
    IN  [h |-> h, sid |-> sid, due |-> delay, forIdx |-> H[sid].questionIdx]

clearTimeout(T, h) == {t \in T : t.h # h}

----------------------------------------------------------------------------
\* Broadcasts.

Emit(s, sid, ev, data) == [ev |-> ev, pin |-> s.pin, sid |-> sid, data |-> data]

\* Variant: the entries stay in insertion order.
SortSkipped(seq) == seq

RECURSIVE SortByScoreDesc(_)
SortByScoreDesc(seq) ==
    IF seq = <<>> THEN <<>>
    ELSE LET rest == SortByScoreDesc(SubSeq(seq, 1, Len(seq) - 1))
             e == seq[Len(seq)]
             k == Cardinality({i \in DOMAIN rest : rest[i].score >= e.score})
         IN  SubSeq(rest, 1, k) \o <<e>> \o SubSeq(rest, k + 1, Len(rest))

emitLeaderboard(s, sid) ==
    Emit(s, sid, "leaderboard",
         SortByScoreDesc([i \in DOMAIN s.players |->
             [id |-> s.players[i].socketId, score |-> s.players[i].score,
              lastAnswer |-> s.players[i].lastAnswer]]))

----------------------------------------------------------------------------
\* Session helpers.

NewSession(pin, hostSocketId) ==
    [pin |-> pin, hostSocketId |-> hostSocketId, players |-> <<>>, questions |-> <<>>,
     questionIdx |-> -1, deadline |-> NULL, timer |-> NoTimer]

currentQuestion(s) ==
    IF s.questionIdx + 1 \in DOMAIN s.questions
    THEN <<s.questions[s.questionIdx + 1]>> ELSE NULL

PlayerIndex(s, c) ==
    IF \E i \in DOMAIN s.players : s.players[i].socketId = c
    THEN CHOOSE i \in DOMAIN s.players : s.players[i].socketId = c
    ELSE 0

addPlayer(s, c) ==
    LET player == [socketId |-> c, score |-> 0, lastAnswer |-> NULL, streak |-> 0]
        i == PlayerIndex(s, c)
    IN  [s EXCEPT !.players = IF i = 0 THEN Append(@, player) ELSE [@ EXCEPT ![i] = player]]

\* Variant: the whole participant set is dropped.
deletePlayerAll(s, c) ==
    [s EXCEPT !.players = <<>>]

deletePlayer(s, c) ==
    [s EXCEPT !.players = SelectSeq(@, LAMBDA p : p.socketId # c)]

----------------------------------------------------------------------------
\* Scoring (scoreAnswer).  s.deadline holds deadline - now, so `now > deadline`
\* reads s.deadline[1] < 0 and `deadline - now` reads s.deadline[1].

Fail(reason) == [ok |-> FALSE, reason |-> reason]

alreadyAnswered(player, q) ==
    player.lastAnswer # NULL /\ player.lastAnswer[1].qid = q.id

tooLate(s) ==
    s.deadline = NULL \/ s.deadline[1] < 0

\* Variant: the bonus grows with the time elapsed.
timeBonusOfElapsed(s, q) ==
    (Max(0, q.durationMs - s.deadline[1]) * TIME_BONUS_MAX) \div q.durationMs

timeBonusOf(s, q) ==
    (Max(0, s.deadline[1]) * TIME_BONUS_MAX) \div q.durationMs

\* Variant: the streak bonus is taken from the streak before the answer.
scoreCorrectStaleStreak(player, q, timeBonus) ==
    LET streak == player.streak + 1
        streakBonus == player.streak * STREAK_STEP
        gained == BASE_SCORE + timeBonus + streakBonus
    IN  [player |-> [player EXCEPT
                        !.streak = streak,
                        !.score = @ + gained,
                        !.lastAnswer = <<[qid |-> q.id, correct |-> TRUE, gained |-> gained,
                                          timeBonus |-> timeBonus, streakBonus |-> streakBonus,
                                          penalty |-> 0]>>],
         res |-> [ok |-> TRUE, isCorrect |-> TRUE, gained |-> gained, penalty |-> 0,
                  correct |-> q.answer, streak |-> streak]]

scoreCorrect(player, q, timeBonus) ==
    LET streak == player.streak + 1
        streakBonus == streak * STREAK_STEP
        gained == BASE_SCORE + timeBonus + streakBonus
    IN  [player |-> [player EXCEPT
                        !.streak = streak,
                        !.score = @ + gained,
                        !.lastAnswer = <<[qid |-> q.id, correct |-> TRUE, gained |-> gained,
                                          timeBonus |-> timeBonus, streakBonus |-> streakBonus,
                                          penalty |-> 0]>>],
         res |-> [ok |-> TRUE, isCorrect |-> TRUE, gained |-> gained, penalty |-> 0,
                  correct |-> q.answer, streak |-> streak]]

\* Variant: the penalty is charged for the streak the answer would have reached,
\* and the score is not floored.
scoreIncorrectUnfloored(player, q) ==
    LET penalty == (player.streak + 1) * STREAK_STEP
    IN  [player |-> [player EXCEPT
                        !.score = @ - penalty,
                        !.streak = 0,
                        !.lastAnswer = <<[qid |-> q.id, correct |-> FALSE, gained |-> 0,
                                          timeBonus |-> 0, streakBonus |-> 0,
                                          penalty |-> penalty]>>],
         res |-> [ok |-> TRUE, isCorrect |-> FALSE, gained |-> 0, penalty |-> penalty,
                  correct |-> q.answer, streak |-> 0]]

\* Variant: the streak survives an incorrect answer.
scoreIncorrectKeepsStreak(player, q) ==
    LET penalty == player.streak * STREAK_STEP
    IN  [player |-> [player EXCEPT
                        !.score = Max(0, @ - penalty),
                        !.lastAnswer = <<[qid |-> q.id, correct |-> FALSE, gained |-> 0,
                                          timeBonus |-> 0, streakBonus |-> 0,
                                          penalty |-> penalty]>>],
         res |-> [ok |-> TRUE, isCorrect |-> FALSE, gained |-> 0, penalty |-> penalty,
                  correct |-> q.answer, streak |-> player.streak]]

scoreIncorrect(player, q) ==
    LET penalty == player.streak * STREAK_STEP
    IN  [player |-> [player EXCEPT
                        !.score = Max(0, @ - penalty),
                        !.streak = 0,
                        !.lastAnswer = <<[qid |-> q.id, correct |-> FALSE, gained |-> 0,
                                          timeBonus |-> 0, streakBonus |-> 0,
                                          penalty |-> penalty]>>],
         res |-> [ok |-> TRUE, isCorrect |-> FALSE, gained |-> 0, penalty |-> penalty,
                  correct |-> q.answer, streak |-> 0]]

\* Variant: a refused answer still breaks the streak.
scoreAnswerRefusalBreaksStreak(s, player, answer) ==
    LET cq == currentQuestion(s)
        broken == [player EXCEPT !.streak = 0]
    IN
    IF cq = NULL THEN [player |-> broken, res |-> Fail("no-question")]
    ELSE IF alreadyAnswered(player, cq[1])
         THEN [player |-> broken, res |-> Fail("already-answered")]
    ELSE IF tooLate(s) THEN [player |-> broken, res |-> Fail("too-late")]
    ELSE IF answer = cq[1].answer
         THEN scoreCorrect(player, cq[1], timeBonusOf(s, cq[1]))
         ELSE scoreIncorrect(player, cq[1])

\* Variant: the deadline is tested before the previous answer.
scoreAnswerDeadlineFirst(s, player, answer) ==
    LET cq == currentQuestion(s) IN
    IF cq = NULL THEN [player |-> player, res |-> Fail("no-question")]
    ELSE IF tooLate(s) THEN [player |-> player, res |-> Fail("too-late")]
    ELSE IF alreadyAnswered(player, cq[1])
         THEN [player |-> player, res |-> Fail("already-answered")]
    ELSE IF answer = cq[1].answer
         THEN scoreCorrect(player, cq[1], timeBonusOf(s, cq[1]))
         ELSE scoreIncorrect(player, cq[1])

\* scoreAnswer works on the player object in place; player is the object as
\* it leaves.
scoreAnswer(s, player, answer) ==
    LET cq == currentQuestion(s) IN
    IF cq = NULL THEN [player |-> player, res |-> Fail("no-question")]
    ELSE IF alreadyAnswered(player, cq[1])
         THEN [player |-> player, res |-> Fail("already-answered")]
    ELSE IF tooLate(s) THEN [player |-> player, res |-> Fail("too-late")]
    ELSE IF answer = cq[1].answer
         THEN scoreCorrect(player, cq[1], timeBonusOf(s, cq[1]))
         ELSE scoreIncorrect(player, cq[1])

----------------------------------------------------------------------------
\* endSession and nextQuestion.  Both work on the session object sid of heap H
\* with pending timeouts T, and return the new heap and timeouts, the
\* broadcasts made (out) and, for nextQuestion, its result (res).

\* Variant: the pending timeout is left armed.
cancelTimerSkipped(T, s) == T

cancelTimer(T, s) ==
    IF s.timer # NoTimer THEN clearTimeout(T, s.timer) ELSE T

\* Variant: the session's timeout is not cancelled.
endSessionKeepsTimer(H, T, sid, reason) ==
    [heap |-> H, timers |-> T,
     out |-> <<Emit(H[sid], sid, "session:end", [reason |-> reason])>>]

endSession(H, T, sid, reason) ==
    [heap |-> [H EXCEPT ![sid].timer = NoTimer],
     timers |-> cancelTimer(T, H[sid]),
     out |-> <<Emit(H[sid], sid, "session:end", [reason |-> reason])>>]

\* Variant: no timeout is scheduled.
armTimerNone(H, T, sid, q) ==
    [heap |-> H, timers |-> T]

\* Variant: the handle of the timeout is not kept in session.timer.
armTimerUnrecorded(H, T, sid, q) ==
    LET t == setTimeout(H, T, sid, q.durationMs + SafetyMarginMs)
    IN  [heap |-> H, timers |-> T \cup {t}]

\* Variant: the timeout is set to the question's duration, without margin.
armTimerNoMargin(H, T, sid, q) ==
    LET t == setTimeout(H, T, sid, q.durationMs)
    IN  [heap |-> [H EXCEPT ![sid].timer = t.h], timers |-> T \cup {t}]

\* setTimeout(() => nextQuestion(session), durationMs + 50)
armTimer(H, T, sid, q) ==
    LET t == setTimeout(H, T, sid, q.durationMs + SafetyMarginMs)
    IN  [heap |-> [H EXCEPT ![sid].timer = t.h], timers |-> T \cup {t}]

nextQuestion(H, T, sid) ==
    LET T1 == cancelTimer(T, H[sid])
        H1 == [H EXCEPT ![sid].timer = NoTimer, ![sid].questionIdx = @ + 1]
        cq == currentQuestion(H1[sid])
    IN  IF cq = NULL
        THEN LET e == endSession(H1, T1, sid, "done")
             IN  [heap |-> e.heap, timers |-> e.timers, out |-> e.out,
                  res |-> Fail("no-more")]
        ELSE LET q == cq[1]
                 H2 == [H1 EXCEPT ![sid].deadline = <<q.durationMs>>]
                 a == armTimer(H2, T1, sid, q)
             IN  [heap |-> a.heap,
                  timers |-> a.timers,
                  out |-> <<Emit(H2[sid], sid, "question",
                                 [id |-> q.id, deadline |-> H2[sid].deadline,
                                  idx |-> H2[sid].questionIdx,
                                  total |-> Len(H2[sid].questions)])>>,
                  res |-> [ok |-> TRUE]]

\* Variant: only an unknown pin is refused.
notHostUnknownPinOnly(R, H, c, pin) ==
    pin \notin DOMAIN R

\* The authorization test of session:start and question:next.
notHost(R, H, c, pin) ==
    pin \notin DOMAIN R \/ H[R[pin]].hostSocketId # c

\* session:start's questions.map: ids and durations defaulted.
RECURSIVE mapQuestions(_, _)
mapQuestions(qs, used) ==
    IF qs = <<>> THEN <<>>
    ELSE LET q == Head(qs)
             id == IF q.id # 0 THEN q.id ELSE uuid(used)
             d == IF q.durationMs # 0 THEN q.durationMs ELSE DefaultDurationMs
         IN  <<Q(id, q.answer, d)>> \o mapQuestions(Tail(qs), used \cup {id})

\* Variant: the index is not rewound.
resetRunKeepsIndex(H, sid, qs, used) ==
    [H EXCEPT ![sid].questions = mapQuestions(qs, used)]

\* session:start replaces the question list and rewinds the index.
resetRun(H, sid, qs, used) ==
    [H EXCEPT ![sid].questions = mapQuestions(qs, used), ![sid].questionIdx = -1]

\* Variant: the entry stays in the registry.
deleteSessionSkipped(R, pin) == R

\* SESSIONS.delete(pin)
deleteSession(R, pin) ==
    [p \in DOMAIN R \ {pin} |-> R[p]]

----------------------------------------------------------------------------
\* History bookkeeping shared by the actions.

EndedBy(out) == {out[i].sid : i \in {j \in DOMAIN out : out[j].ev = "session:end"}}

QuestionIdxs(out, sid) ==
    SelectSeq([i \in DOMAIN out |-> IF out[i].ev = "question" /\ out[i].sid = sid
                                    THEN out[i].data.idx ELSE -1],
              LAMBDA x : x >= 0)

Event(op, reply) == [op |-> op, reply |-> reply]

NoReply == [none |-> TRUE]

Registered(R) == {R[p] : p \in DOMAIN R}

\* Session objects nothing refers to any more are dropped.
Live(R, H, T) ==
    [sid \in {x \in DOMAIN H : x \in Registered(R) \/ \E t \in T : t.sid = x} |-> H[sid]]

Restrict(f, S) == [x \in S |-> f[x]]

Reject(op, reply) ==
    /\ last' = Event(op, reply)
    /\ emitted' = <<>>
    /\ UNCHANGED <<SESSIONS, heap, timers, connected, nextSid, work, ended,
                   answered, pinOf, qlog>>

----------------------------------------------------------------------------
Init ==
    /\ SESSIONS = <<>>
    /\ heap = <<>>
    /\ timers = {}
    /\ connected = Sockets
    /\ emitted = <<>>
    /\ last = Event("init", NoReply)
    /\ nextSid = 0
    /\ work = 0
    /\ ended = {}
    /\ answered = <<>>
    /\ pinOf = <<>>
    /\ qlog = <<>>

\* Variant: the first pin drawn is taken, registered or not.
genPinUnchecked(R) == Pins

\* createSession draws pins until one is not in the registry.
genPin(R) == Pins \ DOMAIN R

\* socket.on("session:create"), with createSession.
Create(c) ==
    /\ c \in connected
    /\ \E pin \in genPin(SESSIONS) :
         LET sid == nextSid + 1 IN
         /\ SESSIONS' = [p \in DOMAIN SESSIONS \cup {pin} |->
                            IF p = pin THEN sid ELSE SESSIONS[p]]
         /\ heap' = [x \in DOMAIN heap \cup {sid} |->
                        IF x = sid THEN NewSession(pin, c) ELSE heap[x]]
         /\ answered' = [x \in DOMAIN heap \cup {sid} |-> IF x = sid THEN {} ELSE answered[x]]
         /\ qlog' = [x \in DOMAIN heap \cup {sid} |-> IF x = sid THEN <<>> ELSE qlog[x]]
         /\ nextSid' = sid
         /\ pinOf' = Append(pinOf, pin)
         /\ emitted' = <<>>
         /\ last' = Event("session:create", [pin |-> pin, sessionId |-> sid])
         /\ UNCHANGED <<timers, connected, work, ended>>

\* socket.on("session:start")
Start(c, pin, qs) ==
    /\ c \in connected
    /\ IF notHost(SESSIONS, heap, c, pin)
       THEN Reject("session:start", Fail("not-host"))
       ELSE LET sid == SESSIONS[pin]
                H0 == resetRun(heap, sid, qs, QuestionIdsInUse)
                w == nextQuestion(H0, timers, sid)
            IN  /\ work < MaxWork
                /\ work' = work + 1
                /\ heap' = w.heap
                /\ timers' = w.timers
                /\ emitted' = w.out
                /\ last' = Event("session:start", [ok |-> TRUE])
                /\ ended' = ended \cup EndedBy(w.out)
                /\ answered' = [answered EXCEPT ![sid] = {}]
                /\ qlog' = [qlog EXCEPT ![sid] = QuestionIdxs(w.out, sid)]
                /\ UNCHANGED <<SESSIONS, connected, nextSid, pinOf>>

\* socket.on("question:next")
NextQ(c, pin) ==
    /\ c \in connected
    /\ IF notHost(SESSIONS, heap, c, pin)
       THEN Reject("question:next", Fail("not-host"))
       ELSE LET sid == SESSIONS[pin]
                w == nextQuestion(heap, timers, sid)
            IN  /\ heap[sid].questionIdx < Len(heap[sid].questions) + MaxOver
                /\ heap' = w.heap
                /\ timers' = w.timers
                /\ emitted' = w.out
                /\ last' = Event("question:next", w.res)
                /\ ended' = ended \cup EndedBy(w.out)
                /\ answered' = [answered EXCEPT ![sid] = {}]
                /\ qlog' = [qlog EXCEPT ![sid] = @ \o QuestionIdxs(w.out, sid)]
                /\ UNCHANGED <<SESSIONS, connected, nextSid, work, pinOf>>

\* socket.on("join")
Join(c, pin) ==
    /\ c \in connected
    /\ IF pin \notin DOMAIN SESSIONS
       THEN Reject("join", Fail("not-found"))
       ELSE LET sid == SESSIONS[pin]
                s == addPlayer(heap[sid], c)
            IN  /\ heap' = [heap EXCEPT ![sid] = s]
                /\ emitted' = <<Emit(s, sid, "player:joined", [id |-> c]),
                                emitLeaderboard(s, sid)>>
                /\ last' = Event("join", [ok |-> TRUE, pin |-> pin])
                /\ UNCHANGED <<SESSIONS, timers, connected, nextSid, work,
                               ended, answered, pinOf, qlog>>

\* socket.on("answer")
Answer(c, pin, a) ==
    /\ c \in connected
    /\ IF pin \notin DOMAIN SESSIONS
       THEN Reject("answer", Fail("not-found"))
       ELSE LET sid == SESSIONS[pin]
                s == heap[sid]
                i == PlayerIndex(s, c)
            IN  IF i = 0
                THEN Reject("answer", Fail("not-joined"))
                ELSE LET r == scoreAnswer(s, s.players[i], a) IN
                     IF ~r.res.ok
                     THEN /\ heap' = [heap EXCEPT ![sid].players[i] = r.player]
                          /\ last' = Event("answer", r.res)
                          /\ emitted' = <<>>
                          /\ UNCHANGED <<SESSIONS, timers, connected, nextSid, work,
                                         ended, answered, pinOf, qlog>>
                     ELSE /\ work < MaxWork
                          /\ heap' = [heap EXCEPT ![sid].players[i] = r.player]
                          /\ emitted' = <<emitLeaderboard(heap'[sid], sid)>>
                          /\ last' = Event("answer",
                                           [ok |-> TRUE, correct |-> r.res.isCorrect,
                                            gained |-> r.res.gained,
                                            penalty |-> r.res.penalty,
                                            right |-> r.res.correct,
                                            streak |-> r.res.streak])
                          /\ answered' = [answered EXCEPT ![sid] = @ \cup {c}]
                          /\ work' = work + 1
                          /\ UNCHANGED <<SESSIONS, timers, connected, nextSid, ended, pinOf, qlog>>

\* socket.on("disconnect"): one pass over SESSIONS.entries(), in insertion
\* order, which is the order of the session ids.
disconnectOne(W, c, sid) ==
    LET s == W.heap[sid] IN
    IF s.hostSocketId = c
    THEN LET e == endSession(W.heap, W.timers, sid, "host-left")
         IN  [reg |-> deleteSession(W.reg, s.pin), heap |-> e.heap,
              timers |-> e.timers, out |-> W.out \o e.out]
    ELSE IF PlayerIndex(s, c) # 0
         THEN LET s2 == deletePlayer(s, c)
              IN  [W EXCEPT !.heap[sid] = s2, !.out = @ \o <<emitLeaderboard(s2, sid)>>]
         ELSE W

RECURSIVE disconnectLoop(_, _, _)
disconnectLoop(W, c, sid) ==
    IF sid > nextSid THEN W
    ELSE disconnectLoop(IF sid \in Registered(SESSIONS) THEN disconnectOne(W, c, sid) ELSE W,
                        c, sid + 1)

Disconnect(c) ==
    /\ c \in connected
    /\ LET w == disconnectLoop([reg |-> SESSIONS, heap |-> heap, timers |-> timers,
                                out |-> <<>>], c, 1)
           H == Live(w.reg, w.heap, w.timers)
       IN  /\ SESSIONS' = w.reg
           /\ heap' = H
           /\ timers' = w.timers
           /\ emitted' = w.out
           /\ ended' = ended \cup EndedBy(w.out)
           /\ answered' = Restrict(answered, DOMAIN H)
           /\ qlog' = Restrict(qlog, DOMAIN H)
    /\ connected' = connected \ {c}
    /\ last' = Event("disconnect", NoReply)
    /\ UNCHANGED <<nextSid, work, pinOf>>

\* The setTimeout callback of nextQuestion runs once its delay has elapsed.
TimerFire(t) ==
    /\ t \in timers
    /\ t.due = 0
    /\ LET w == nextQuestion(heap, timers \ {t}, t.sid) IN
       /\ heap' = w.heap
       /\ timers' = w.timers
       /\ emitted' = w.out
       /\ ended' = ended \cup EndedBy(w.out)
       /\ answered' = [answered EXCEPT ![t.sid] = {}]
       /\ qlog' = [qlog EXCEPT ![t.sid] = @ \o QuestionIdxs(w.out, t.sid)]
    /\ last' = Event("timer", NoReply)
    /\ UNCHANGED <<SESSIONS, connected, nextSid, work, pinOf>>

\* SafetyMarginMs milliseconds pass.
Tick ==
    /\ heap' = [sid \in DOMAIN heap |->
                  [heap[sid] EXCEPT !.deadline =
                      IF @ = NULL THEN NULL
                      ELSE <<Max(-SafetyMarginMs, @[1] - SafetyMarginMs)>>]]
    /\ timers' = {[t EXCEPT !.due = Max(0, @ - SafetyMarginMs)] : t \in timers}
    /\ emitted' = <<>>
    /\ last' = Event("tick", NoReply)
    /\ UNCHANGED <<SESSIONS, connected, nextSid, work, ended, answered, pinOf, qlog>>

Next ==
    \/ \E c \in Sockets : Create(c)
    \/ \E c \in Sockets, pin \in Pins, qs \in QuestionLists : Start(c, pin, qs)
    \/ \E c \in Sockets, pin \in Pins : NextQ(c, pin)
    \/ \E c \in Sockets, pin \in Pins : Join(c, pin)
    \/ \E c \in Sockets, pin \in Pins, a \in Answers : Answer(c, pin, a)
    \/ \E c \in Sockets : Disconnect(c)
    \/ \E t \in timers : TimerFire(t)
    \/ Tick

Spec == Init /\ [][Next]_vars

\* The event loop: the clock advances, and a timer that has come due runs.
LiveSpec ==
    /\ Init
    /\ [][Next]_vars
    /\ WF_vars(Tick)
    /\ WF_vars(\E t \in timers : TimerFire(t))

----------------------------------------------------------------------------
\* Vocabulary of the properties.

SessionOf(pin) == heap[SESSIONS[pin]]
IsHost(c, pin) == pin \in DOMAIN SESSIONS /\ SessionOf(pin).hostSocketId = c
InQuestion(s) == currentQuestion(s) # NULL
Players(s) == Range(s.players)
Has(out, ev, sid) == \E i \in DOMAIN out : out[i].ev = ev /\ out[i].sid = sid

----------------------------------------------------------------------------
\* C1: a second submit-answer from the same connection while the same question
\* is current is rejected with already-answered and changes no score, streak
\* or lastAnswer.
C1_NoDoubleCounting ==
    [][\A c \in Sockets, pin \in Pins, a \in Answers :
          (/\ Answer(c, pin, a)
           /\ pin \in DOMAIN SESSIONS
           /\ c \in answered[SESSIONS[pin]])
          => (last'.reply = Fail("already-answered") /\ heap' = heap)]_vars

\* C2: in every reachable state every participant's score (and streak) is an
\* integer >= 0.
C2_ScoreNonNegative ==
    \A sid \in DOMAIN heap : \A p \in Players(heap[sid]) :
        p.score \in Nat /\ p.streak \in Nat

\* An incorrect answer has just been charged a penalty.
C2_Witness ==
    /\ last.op = "answer" /\ last.reply.ok
    /\ ~last.reply.correct /\ last.reply.penalty > 0

\* C3: the question index of every registered session is -1, within the
\* question list, or exactly the length of the list.
C3_IndexInRange ==
    \A pin \in DOMAIN SESSIONS :
        SessionOf(pin).questionIdx \in -1..Len(SessionOf(pin).questions)

\* C4: every session has at most one pending timeout, and every pending
\* timeout is the one its (registered) session holds in session.timer; a
\* cancelled or superseded timeout is never pending, so it cannot fire.
C4_OnePendingTimer ==
    /\ \A sid \in DOMAIN heap : Cardinality({t \in timers : t.sid = sid}) <= 1
    /\ \A t \in timers :
          /\ t.sid \in Registered(SESSIONS)
          /\ heap[t.sid].timer = t.h

\* A manual advance has just replaced the timeout of the previous question.
C4_Witness ==
    /\ last = Event("question:next", [ok |-> TRUE])
    /\ \E t \in timers : t.forIdx = 1

\* C5: the question broadcasts of a run carry the indices 0, 1, 2, ... in
\* order, one per question, and the pending timeout of a session is the one
\* armed for its current question, so a question is left once: by the manual
\* advance or by its own timeout.
C5_OneAdvancePerQuestion ==
    /\ \A sid \in DOMAIN heap :
          /\ qlog[sid] = [i \in 1..Len(qlog[sid]) |-> i - 1]
          /\ InQuestion(heap[sid]) => Len(qlog[sid]) = heap[sid].questionIdx + 1
    /\ \A t \in timers : t.forIdx = heap[t.sid].questionIdx

\* The second question of a run has been broadcast after a timeout fired.
C5_Witness ==
    /\ last.op = "timer"
    /\ \E sid \in DOMAIN heap : qlog[sid] = <<0, 1>> /\ Has(emitted, "question", sid)

\* C6: a session:start or question:next from a connection that is not the
\* host of the session is answered not-host and changes nothing: the
\* registry, the sessions (question list, index, deadline, timer,
\* participants) and the pending timeouts are unchanged, nothing is broadcast.
C6_NotHostNoEffect ==
    [][\A c \in Sockets, pin \in Pins :
          (/\ ~IsHost(c, pin)
           /\ (NextQ(c, pin) \/ \E qs \in QuestionLists : Start(c, pin, qs)))
          => (/\ last'.reply = Fail("not-host")
              /\ UNCHANGED <<SESSIONS, heap, timers>>
              /\ emitted' = <<>>)]_vars

\* A start from another connection has just been refused while the session runs.
C6_Witness ==
    /\ last = Event("session:start", Fail("not-host"))
    /\ \E pin \in DOMAIN SESSIONS : InQuestion(SessionOf(pin))

----------------------------------------------------------------------------
\* Host disconnect.

HostLeftEmitted(out, sid) ==
    \E i \in DOMAIN out :
        out[i].ev = "session:end" /\ out[i].sid = sid /\ out[i].data.reason = "host-left"

\* What a host's disconnect does to each session it hosts.
HostDisconnectEnds ==
    \A c \in Sockets : Disconnect(c) =>
        \A pin \in DOMAIN SESSIONS : IsHost(c, pin) =>
            /\ HostLeftEmitted(emitted', SESSIONS[pin])
            /\ pin \notin DOMAIN SESSIONS'
            /\ \A t \in timers' : t.sid # SESSIONS[pin]

\* Every broadcast of a step is for a session that was registered when the
\* step began: nothing is ever broadcast for a removed session.
BroadcastsOnlyForRegistered ==
    \A i \in DOMAIN emitted' : emitted'[i].sid \in Registered(SESSIONS)

\* Pins whose session was removed from the registry (by its host leaving).
ClosedPins == {pinOf[sid] : sid \in (1..nextSid) \ Registered(SESSIONS)}

\* C7 as stated: when a session's host disconnects, session-end host-left is
\* broadcast, the timer is cancelled and the session is removed; from then on
\* every join, answer, start and advance naming that code is rejected with
\* not-found, and nothing is broadcast for that session again.
C7_HostLeftNotFound ==
    [][/\ HostDisconnectEnds
       /\ BroadcastsOnlyForRegistered
       /\ \A c \in Sockets, pin \in ClosedPins :
             (\/ Join(c, pin)
              \/ NextQ(c, pin)
              \/ \E a \in Answers : Answer(c, pin, a)
              \/ \E qs \in QuestionLists : Start(c, pin, qs))
             => last'.reply = Fail("not-found")]_vars

\* C7 amended: as above, but while the code is not registered (until
\* createSession assigns it to a new session) join and answer are rejected
\* with not-found and start and advance with not-host, all without effect.
C7_HostLeftEndsSession ==
    [][/\ HostDisconnectEnds
       /\ BroadcastsOnlyForRegistered
       /\ \A c \in Sockets, pin \in Pins \ DOMAIN SESSIONS :
             /\ (Join(c, pin) \/ \E a \in Answers : Answer(c, pin, a))
                   => (last'.reply = Fail("not-found") /\ UNCHANGED <<SESSIONS, heap, timers>>)
             /\ (NextQ(c, pin) \/ \E qs \in QuestionLists : Start(c, pin, qs))
                   => (last'.reply = Fail("not-host") /\ UNCHANGED <<SESSIONS, heap, timers>>)]_vars

\* The host of a running session has left, and a join naming its code has
\* just been refused.
C7_Witness ==
    /\ last = Event("join", Fail("not-found"))
    /\ ClosedPins # {}
    /\ SESSIONS = <<>>
    /\ \E sid \in ended : sid \notin DOMAIN heap

----------------------------------------------------------------------------
\* Auto-advance.

EndEmitted(out, sid, reason) ==
    \E i \in DOMAIN out :
        /\ out[i].ev = "session:end"
        /\ out[i].sid = sid
        /\ out[i].data = [reason |-> reason]

Running(pin) == pin \in DOMAIN SESSIONS /\ InQuestion(SessionOf(pin))

\* C8: under fairness of the clock and of the timer callback, a started
\* session with a question current eventually broadcasts session:end with
\* reason done, or its host leaves; no question:next and no answer is needed
\* (starts are finite in every behaviour). In particular the timer callback
\* that runs while the last question is current emits session:end{done}.
C8_AutoAdvanceEnds ==
    /\ \A pin \in Pins :
          Running(pin) ~> (\/ pin \notin DOMAIN SESSIONS
                           \/ EndEmitted(emitted, SESSIONS[pin], "done"))
    /\ [][\A t \in timers :
             (/\ TimerFire(t)
              /\ t.sid \in Registered(SESSIONS)
              /\ heap[t.sid].questionIdx = Len(heap[t.sid].questions) - 1)
             => EndEmitted(emitted', t.sid, "done")]_vars

\* The timer callback has just ended a session in which the only accepted
\* request was the session:start: no answer was scored.
C8_Witness ==
    /\ last = Event("timer", NoReply)
    /\ work = 1
    /\ \E sid \in Registered(SESSIONS) :
          /\ EndEmitted(emitted, sid, "done")
          /\ heap[sid].questionIdx = Len(heap[sid].questions)
          /\ heap[sid].questions # <<>>

----------------------------------------------------------------------------
\* C9 as stated: once endSession has run for a session, no question is
\* broadcast for it and its index never again references a question.
C9_EndIsPermanent ==
    \A sid \in ended :
        /\ ~Has(emitted, "question", sid)
        /\ sid \in DOMAIN heap => ~InQuestion(heap[sid])

\* The last thing that happened to the run of session sid is endSession.
EndedNow(sid) ==
    sid \in ended /\ (sid \notin Registered(SESSIONS) \/ ~InQuestion(heap[sid]))

\* C9 amended: once endSession has run for a session, a question is broadcast
\* for it, or its index references a question again, only by a session:start
\* of its host while it is registered; question:next, join, answer, disconnect
\* and timeouts never resume it.
C9_EndUntilRestart ==
    [][\A sid \in ended :
          (/\ EndedNow(sid)
           /\ \/ Has(emitted', "question", sid)
              \/ (sid \in DOMAIN heap' /\ InQuestion(heap'[sid])))
          => (/\ sid \in Registered(SESSIONS)
              /\ \E c \in Sockets, qs \in QuestionLists :
                    IsHost(c, heap[sid].pin) /\ Start(c, heap[sid].pin, qs))]_vars

\* An advance was requested after the end of a session, and it stayed ended.
C9_Witness ==
    /\ last = Event("question:next", Fail("no-more"))
    /\ \E sid \in ended \cap DOMAIN heap :
          /\ heap[sid].questionIdx > Len(heap[sid].questions)
          /\ heap[sid].questions # <<>>

----------------------------------------------------------------------------
\* Streaks.

PlayerOf(H, R, c, pin) == H[R[pin]].players[PlayerIndex(H[R[pin]], c)]
Joined(c, pin) == pin \in DOMAIN SESSIONS /\ PlayerIndex(SessionOf(pin), c) # 0

\* C10 as stated: a participant's streak is 0 right after any submit-answer of
\* theirs that is incorrect, or rejected as too-late or already-answered.
C10_StreakZeroAfterMiss ==
    [][\A c \in Sockets, pin \in Pins, a \in Answers :
          (/\ Joined(c, pin)
           /\ Answer(c, pin, a)
           /\ \/ (last'.reply.ok /\ ~last'.reply.correct)
              \/ last'.reply \in {Fail("too-late"), Fail("already-answered")})
          => PlayerOf(heap', SESSIONS', c, pin).streak = 0]_vars

\* C10 amended: the streak is 0 right after any accepted incorrect answer; an
\* answer rejected as too-late or already-answered leaves the streak as it was.
C10_StreakReset ==
    [][\A c \in Sockets, pin \in Pins, a \in Answers :
          (Joined(c, pin) /\ Answer(c, pin, a))
          => /\ (last'.reply.ok /\ ~last'.reply.correct)
                   => PlayerOf(heap', SESSIONS', c, pin).streak = 0
             /\ last'.reply \in {Fail("too-late"), Fail("already-answered")}
                   => PlayerOf(heap', SESSIONS', c, pin).streak
                          = PlayerOf(heap, SESSIONS, c, pin).streak]_vars

\* A participant with a streak has just had it reset by an incorrect answer.
C10_Witness ==
    /\ last.op = "answer" /\ last.reply.ok /\ ~last.reply.correct
    /\ last.reply.streak = 0
    /\ \E sid \in DOMAIN heap : \E p \in Players(heap[sid]) :
          /\ p.lastAnswer # NULL
          /\ p.lastAnswer[1].penalty = STREAK_STEP
          /\ p.streak = 0

----------------------------------------------------------------------------
\* Refused answers.

DeadlinePassed(s) == s.deadline # NULL /\ s.deadline[1] < 0

\* C11: an answer request that is refused (not-found, not-joined, no-question,
\* already-answered, too-late) leaves the registry, every session (question
\* list, index, deadline, timer, every participant's score, streak and
\* lastAnswer) and the pending timeouts as they were and broadcasts nothing;
\* an answer after the deadline of the current question is always refused,
\* with too-late unless the already-answered test (the participant's
\* lastAnswer carries the current question's id) comes first.
C11_RefusedAnswerNoEffect ==
    [][\A c \in Sockets, pin \in Pins, a \in Answers :
          Answer(c, pin, a) =>
             /\ ~last'.reply.ok =>
                   /\ last'.reply.reason \in {"not-found", "not-joined", "no-question",
                                              "already-answered", "too-late"}
                   /\ UNCHANGED <<SESSIONS, heap, timers>>
                   /\ emitted' = <<>>
             /\ (/\ Joined(c, pin)
                 /\ InQuestion(SessionOf(pin))
                 /\ DeadlinePassed(SessionOf(pin)))
                => /\ ~last'.reply.ok
                   /\ ~alreadyAnswered(PlayerOf(heap, SESSIONS, c, pin),
                                       currentQuestion(SessionOf(pin))[1])
                         => last'.reply = Fail("too-late")]_vars

\* A participant with points has just had a late answer refused.
C11_Witness ==
    /\ last = Event("answer", Fail("too-late"))
    /\ \E pin \in DOMAIN SESSIONS :
          /\ InQuestion(SessionOf(pin))
          /\ DeadlinePassed(SessionOf(pin))
          /\ \E p \in Players(SessionOf(pin)) : p.score > 0 /\ p.streak > 0

----------------------------------------------------------------------------
\* Scoring.

\* C12: an accepted answer of a participant with streak s and score v that
\* equals the question's answer makes the streak s + 1 and adds exactly
\* 1000 + floor((deadline - now) * 500 / duration) + 100 * (s + 1) to the
\* score; an accepted answer that differs gains 0, is charged the penalty
\* 100 * s, makes the score max(0, v - 100 * s) and the streak 0.
C12_ScoringRule ==
    [][\A c \in Sockets, pin \in Pins, a \in Answers :
          (Answer(c, pin, a) /\ last'.reply.ok) =>
             LET s == SessionOf(pin)
                 q == currentQuestion(s)[1]
                 before == PlayerOf(heap, SESSIONS, c, pin)
                 after == PlayerOf(heap', SESSIONS', c, pin)
                 gained == 1000 + ((s.deadline[1] * 500) \div q.durationMs)
                                + 100 * (before.streak + 1)
             IN  IF a = q.answer
                 THEN /\ after.streak = before.streak + 1
                      /\ after.score = before.score + gained
                      /\ after.lastAnswer[1].streakBonus = 100 * after.streak
                      /\ last'.reply.correct /\ last'.reply.gained = gained
                      /\ last'.reply.penalty = 0
                      /\ last'.reply.streak = after.streak
                 ELSE /\ after.streak = 0
                      /\ after.score = Max(0, before.score - 100 * before.streak)
                      /\ ~last'.reply.correct /\ last'.reply.gained = 0
                      /\ last'.reply.penalty = 100 * before.streak
                      /\ last'.reply.streak = 0]_vars

\* A second consecutive correct answer has just been scored.
C12_Witness ==
    /\ last.op = "answer" /\ last.reply.ok /\ last.reply.correct
    /\ last.reply.streak = 2
    /\ \E pin \in DOMAIN SESSIONS : \E p \in Players(SessionOf(pin)) :
          /\ p.streak = 2
          /\ p.lastAnswer # NULL
          /\ p.lastAnswer[1].streakBonus = 200
          /\ p.lastAnswer[1].gained = last.reply.gained

\* The time bonus scoreAnswer computes for question q of session s when
\* `remaining` milliseconds are left to the deadline.
BonusAt(s, q, remaining) == timeBonusOf([s EXCEPT !.deadline = <<remaining>>], q)

\* C13: while an answer to the current question can be accepted, the time
\* left is within 0..duration; for every question, from its broadcast on,
\* the time bonus over that whole range is within 0..500, never grows as the
\* time left shrinks (as the elapsed time grows), and is exactly 0 at the
\* deadline; the time bonus recorded for every accepted correct answer is
\* therefore within 0..500.
C13_TimeBonusBounds ==
    /\ \A pin \in DOMAIN SESSIONS :
          LET s == SessionOf(pin) IN
          (InQuestion(s) /\ ~tooLate(s)) =>
             LET q == currentQuestion(s)[1] IN
             /\ s.deadline[1] \in 0..q.durationMs
             /\ timeBonusOf(s, q) \in 0..500
             /\ s.deadline[1] = 0 => timeBonusOf(s, q) = 0
             /\ Has(emitted, "question", SESSIONS[pin]) =>
                   /\ \A r \in 0..q.durationMs : BonusAt(s, q, r) \in 0..500
                   /\ \A r \in 1..q.durationMs :
                         BonusAt(s, q, r - 1) <= BonusAt(s, q, r)
                   /\ BonusAt(s, q, 0) = 0
    /\ \A sid \in DOMAIN heap : \A p \in Players(heap[sid]) :
          p.lastAnswer # NULL => p.lastAnswer[1].timeBonus \in 0..500
    /\ (last.op = "answer" /\ last.reply.ok /\ last.reply.correct) =>
          \A pin \in DOMAIN SESSIONS : \A p \in Players(SessionOf(pin)) :
             (p.lastAnswer # NULL /\ p.lastAnswer[1].gained = last.reply.gained
              /\ p.streak = last.reply.streak /\ SessionOf(pin).deadline = <<0>>)
             => p.lastAnswer[1].timeBonus = 0

\* A correct answer has just been accepted exactly at the deadline, with no
\* time bonus.
C13_Witness ==
    /\ last.op = "answer" /\ last.reply.ok /\ last.reply.correct
    /\ last.reply.gained = 1100
    /\ \E pin \in DOMAIN SESSIONS :
          /\ SessionOf(pin).deadline = <<0>>
          /\ \E p \in Players(SessionOf(pin)) :
                p.lastAnswer # NULL /\ p.lastAnswer[1].timeBonus = 0 /\ p.streak = 1

----------------------------------------------------------------------------
\* Leaderboard.

Leaderboards == {i \in DOMAIN emitted : emitted[i].ev = "leaderboard"}

\* C14: every leaderboard broadcast has exactly one entry per connection in
\* the participant set of its session, each with that participant's current
\* score, in descending order of score; a session never holds two
\* participants for one connection.
C14_LeaderboardContent ==
    /\ \A sid \in DOMAIN heap : \A i, j \in DOMAIN heap[sid].players :
          heap[sid].players[i].socketId = heap[sid].players[j].socketId => i = j
    /\ \A i \in Leaderboards :
          /\ emitted[i].sid \in Registered(SESSIONS)
          /\ LET s == heap[emitted[i].sid]
                 d == emitted[i].data
             IN  /\ Len(d) = Len(s.players)
                 /\ \A p \in Players(s) :
                       Cardinality({j \in DOMAIN d : d[j].id = p.socketId
                                                     /\ d[j].score = p.score}) = 1
                 /\ \A j \in 1..(Len(d) - 1) : d[j].score >= d[j + 1].score

\* A leaderboard has just been broadcast in which the participant who joined
\* second comes first.
C14_Witness ==
    \E i \in Leaderboards :
        LET s == heap[emitted[i].sid]
            d == emitted[i].data
        IN  /\ Len(d) = 2
            /\ d[1].score > d[2].score
            /\ d[1].id = s.players[2].socketId

----------------------------------------------------------------------------
\* Registry.

\* Each registered session is registered under its own pin, once.
CodesUnique ==
    /\ \A pin \in DOMAIN SESSIONS : SessionOf(pin).pin = pin
    /\ \A p1, p2 \in DOMAIN SESSIONS : SESSIONS[p1] = SESSIONS[p2] => p1 = p2
    /\ \A s1, s2 \in Registered(SESSIONS) : heap[s1].pin = heap[s2].pin => s1 = s2

\* What session:create does: a new session object, registered under a pin
\* no registered session holds, in its initial state and with no timeout.
CreateRegistersFresh ==
    \A c \in Sockets : Create(c) =>
        LET pin == last'.reply.pin
            sid == last'.reply.sessionId
        IN  /\ pin \notin DOMAIN SESSIONS
            /\ sid \notin DOMAIN heap
            /\ DOMAIN SESSIONS' = DOMAIN SESSIONS \cup {pin}
            /\ SESSIONS'[pin] = sid
            /\ \A p \in DOMAIN SESSIONS : SESSIONS'[p] = SESSIONS[p]
            /\ \A x \in DOMAIN heap : x \in DOMAIN heap' /\ heap'[x] = heap[x]
            /\ heap'[sid] = [pin |-> pin, hostSocketId |-> c, players |-> <<>>,
                             questions |-> <<>>, questionIdx |-> -1,
                             deadline |-> NULL, timer |-> NoTimer]
            /\ timers' = timers
            /\ \A t \in timers' : t.sid # sid

----------------------------------------------------------------------------
\* Participant disconnect.

\* C16: when a connection that is a participant of a session, and not its
\* host, disconnects, its entry is removed from the participant set and
\* nothing else changes: the session stays registered, its question list,
\* index, deadline and timer, the pending timeouts and every other
\* participant (score, streak, lastAnswer, position) are as before, and one
\* leaderboard is broadcast.
C16_ParticipantLeaves ==
    [][\A c \in Sockets, pin \in Pins :
          (Disconnect(c) /\ Joined(c, pin) /\ ~IsHost(c, pin)) =>
             LET sid == SESSIONS[pin]
                 s == heap[sid]
             IN  /\ SESSIONS' = SESSIONS
                 /\ timers' = timers
                 /\ sid \in DOMAIN heap'
                 /\ heap'[sid].players = SelectSeq(s.players, LAMBDA p : p.socketId # c)
                 /\ heap'[sid] = [s EXCEPT !.players = heap'[sid].players]
                 /\ Len(heap'[sid].players) = Len(s.players) - 1
                 /\ \A x \in DOMAIN heap \ {sid} : x \in DOMAIN heap' /\ heap'[x] = heap[x]
                 /\ emitted' = <<emitLeaderboard(heap'[sid], sid)>>]_vars

\* A participant has just left a running session in which another
\* participant, who has points, stays.
C16_Witness ==
    /\ last.op = "disconnect"
    /\ \E pin \in DOMAIN SESSIONS :
          /\ Has(emitted, "leaderboard", SESSIONS[pin])
          /\ InQuestion(SessionOf(pin))
          /\ \E t \in timers : t.sid = SESSIONS[pin]
          /\ \E p \in Players(SessionOf(pin)) : p.score > 0

----------------------------------------------------------------------------
\* Timer and deadline.

\* now <= deadline for the current question of s.
BeforeDeadline(s) == InQuestion(s) /\ ~tooLate(s)

\* C17: the timeout armed for a question runs only once the deadline of that
\* question has passed (now > deadline); while now <= deadline the session
\* leaves its current question only by question:next, session:start or a
\* disconnect, and an answer of a participant at such an instant is never
\* refused as too-late or no-question and, when accepted, is recorded for
\* the question that was current.
C17_TimerAfterDeadline ==
    [][/\ \A t \in timers : TimerFire(t) => DeadlinePassed(heap[t.sid])
       /\ \A sid \in Registered(SESSIONS) :
             (/\ BeforeDeadline(heap[sid])
              /\ \/ sid \notin DOMAIN heap'
                 \/ heap'[sid].questionIdx # heap[sid].questionIdx
                 \/ heap'[sid].questions # heap[sid].questions)
             => last'.op \in {"question:next", "session:start", "disconnect"}
       /\ \A c \in Sockets, pin \in Pins, a \in Answers :
             (Answer(c, pin, a) /\ Joined(c, pin) /\ BeforeDeadline(SessionOf(pin)))
             => /\ last'.reply \notin {Fail("too-late"), Fail("no-question")}
                /\ last'.reply.ok =>
                      PlayerOf(heap', SESSIONS', c, pin).lastAnswer[1].qid
                         = currentQuestion(SessionOf(pin))[1].id]_vars

\* An answer has just been accepted at the very deadline of its question,
\* whose timeout is still SafetyMarginMs away.
C17_Witness ==
    /\ last.op = "answer" /\ last.reply.ok
    /\ \E pin \in DOMAIN SESSIONS :
          /\ SessionOf(pin).deadline = <<0>>
          /\ \E t \in timers :
                /\ t.sid = SESSIONS[pin]
                /\ t.h = SessionOf(pin).timer
                /\ t.due = SafetyMarginMs

----------------------------------------------------------------------------
\* Order of the refusals.

\* The first test of the fixed order that an answer of connection c naming
\* pin fails, "" when it fails none.
FirstFailing(c, pin) ==
    IF pin \notin DOMAIN SESSIONS THEN "not-found"
    ELSE IF ~Joined(c, pin) THEN "not-joined"
    ELSE IF SessionOf(pin).questionIdx + 1 \notin 1..Len(SessionOf(pin).questions)
         THEN "no-question"
    ELSE IF LET la == PlayerOf(heap, SESSIONS, c, pin).lastAnswer
            IN  la # NULL /\ la[1].qid = currentQuestion(SessionOf(pin))[1].id
         THEN "already-answered"
    ELSE IF SessionOf(pin).deadline = NULL \/ SessionOf(pin).deadline[1] < 0
         THEN "too-late"
    ELSE ""

\* C18: the reply to an answer request carries the reason of the first
\* failing test in the order not-found, not-joined, no-question,
\* already-answered, too-late, and is ok:true when none fails; so a repeated
\* answer after the deadline is refused as already-answered, and an answer
\* while no question is current as no-question whatever the deadline holds.
C18_RefusalOrder ==
    [][\A c \in Sockets, pin \in Pins, a \in Answers :
          Answer(c, pin, a) =>
             IF FirstFailing(c, pin) = "" THEN last'.reply.ok
             ELSE last'.reply = Fail(FirstFailing(c, pin))]_vars

\* A repeated answer has just been refused as already-answered although the
\* deadline of the question has passed.
C18_Witness ==
    /\ last = Event("answer", Fail("already-answered"))
    /\ \E pin \in DOMAIN SESSIONS :
          /\ InQuestion(SessionOf(pin))
          /\ DeadlinePassed(SessionOf(pin))
          /\ answered[SESSIONS[pin]] # {}

----------------------------------------------------------------------------
\* Timer and index.

PendingFor(sid) == {t \in timers : t.sid = sid}

\* C19: a registered session has a pending timeout, held in session.timer,
\* exactly when its index references a question of its list, and then its
\* deadline is set; before the first start (index -1) and once the index is
\* past the list (also after a start with no questions) it has none.
C19_TimerIffInQuestion ==
    \A pin \in DOMAIN SESSIONS :
        LET s == SessionOf(pin)
            inRange == s.questionIdx >= 0 /\ s.questionIdx < Len(s.questions)
        IN  /\ (PendingFor(SESSIONS[pin]) # {}) <=> inRange
            /\ (s.timer # NoTimer) <=> inRange
            /\ inRange => s.deadline # NULL
            /\ (s.questionIdx = -1 \/ s.questionIdx >= Len(s.questions))
                  => PendingFor(SESSIONS[pin]) = {}

\* A running session has just been started again with no questions: it is
\* past its list at once and its timeout is gone.
C19_Witness ==
    /\ last = Event("session:start", [ok |-> TRUE])
    /\ \E pin \in DOMAIN SESSIONS :
          /\ SessionOf(pin).questions = <<>>
          /\ SessionOf(pin).questionIdx = 0
          /\ SessionOf(pin).deadline # NULL
          /\ PendingFor(SESSIONS[pin]) = {}

----------------------------------------------------------------------------
\* First answers.

\* C20: while a question is current and now <= deadline, the answer of a
\* participant who has had no answer accepted since that question became
\* current is accepted (ok:true), whatever ids the host gave the questions
\* and however often the session was started.
C20_EligibleAnswerAccepted ==
    [][\A c \in Sockets, pin \in Pins, a \in Answers :
          (/\ Answer(c, pin, a)
           /\ Joined(c, pin)
           /\ BeforeDeadline(SessionOf(pin))
           /\ c \notin answered[SESSIONS[pin]])
          => last'.reply.ok]_vars

====
